---- MODULE Spec2Model ----
(***************************************************************************)
(* yoinkx: the upload ingestion pipeline (webserver/image_upload.rs,       *)
(* webserver/checked_file_stream.rs, webserver/handler_err.rs, conf.rs).   *)
(*                                                                         *)
(* Representation.                                                         *)
(*  - A byte string is a sequence of blocks; one block stands for BlockLen *)
(*    bytes of one kind ("P": bytes carrying a PNG signature, "H": bytes   *)
(*    of an HTML text, "x": bytes no signature matches).  A chunk of the   *)
(*    multipart field is a non-empty byte string; the code never splits a  *)
(*    chunk, so block granularity loses nothing of what it does.           *)
(*  - A file name or path is a sequence of one-character strings, as the   *)
(*    OS string the code handles; a canonical location of the file system  *)
(*    is a sequence of component names.                                    *)
(*  - Option<T> is a sequence of length 0 (None) or 1 (Some).              *)
(***************************************************************************)
EXTENDS Integers, Sequences, FiniteSets, TLC

\* ------------------------------------------------------------------ bounds
\* bytes one block stands for
BlockLen == 4096
\* longest chunk of the field, in blocks
MaxChunkBlocks == 2
\* most chunks in one field
MaxChunks == 2
\* largest multipart total limit handed to read_field, in blocks
MaxLimitBlocks == 3
\* cap of the collision loop's counter (u32 in the code)
MaxSuffix == 3

\* ------------------------------------------------------- program constants
INFERENCE_BUF_LEN == 8192

\* image_upload.rs line 287: let mut buf = vec![0; 64]
DEBUG_BUF_LEN == 64

None == <<>>
Some(x) == <<x>>
IsSome(o) == Len(o) = 1
Unwrap(o) == o[1]

\* ------------------------------------------------------------- byte strings
Tags == {"P", "H", "x"}

RECURSIVE Rep(_, _)
\* n blocks of kind t
Rep(t, n) == IF n = 0 THEN <<>> ELSE <<t>> \o Rep(t, n - 1)

Chunks == {Rep(t, n) : t \in Tags, n \in 1..MaxChunkBlocks}

RECURSIVE SeqsUpTo(_, _)
SeqsUpTo(S, n) ==
    IF n = 0 THEN {<<>>}
    ELSE LET R == SeqsUpTo(S, n - 1)
         IN  R \cup {Append(s, x) : s \in {r \in R : Len(r) = n - 1}, x \in S}

Streams == SeqsUpTo(Chunks, MaxChunks)

RECURSIVE Flat(_)
\* the bytes of a sequence of chunks
Flat(cs) == IF cs = <<>> THEN <<>> ELSE Head(cs) \o Flat(Tail(cs))

\* chunk.len() / Vec::len(), in bytes
ByteLen(b) == Len(b) * BlockLen

IsPrefix(a, b) == Len(a) <= Len(b) /\ SubSeq(b, 1, Len(a)) = a

\* ------------------------------------------------------------------ strings
S_png == <<"p", "n", "g">>
S_jpeg == <<"j", "p", "e", "g">>
S_html == <<"h", "t", "m", "l">>
S_unnamed == <<"u", "n", "n", "a", "m", "e", "d", " ", "s", "c", "r", "e", "e", "n", "s", "h", "o", "t">>
S_id == <<"a", "b", "1", "2", "c", "d", "3", "4", "e", "f">>
S_a_png == <<"a", "."  >> \o S_png
S_a_0_png == <<"a", "_", "0", ".">> \o S_png
S_a_1_png == <<"a", "_", "1", ".">> \o S_png
S_a_b_png == <<"a", ".", "b", ".">> \o S_png
S_myapp == <<"m", "y", "a", "p", "p">>
S_myapp_png == S_myapp \o <<"_">> \o S_id \o <<".">> \o S_png
S_abs_png == <<"/", "e", "/", "a", ".">> \o S_png
S_up_png == <<".", ".", "/", "a", ".">> \o S_png
S_sub_png == <<"d", "/", "a", ".">> \o S_png
S_up_id_png == <<".", ".", "/", "z", "_">> \o S_id \o <<".">> \o S_png
S_abs_id_png == <<"/", "e", "/", "z", "_">> \o S_id \o <<".">> \o S_png
S_t == <<"/", "t">>
S_e_up_t == <<"/", "e", "/", ".", ".", "/", "t">>
S_b_png == <<"b", ".">> \o S_png
S_up_e_a_png == <<".", ".", "/", "e", "/", "a", ".">> \o S_png

WordChars == {"a", "b", "c", "d", "e", "f", "g", "h", "j", "m", "n", "o", "p", "r",
              "s", "t", "u", "y", "z", "0", "1", "2", "3", "4", "_"}

\* largest index of s holding c, 0 when there is none
LastIdx(s, c) ==
    LET I == {i \in 1..Len(s) : s[i] = c}
    IN  IF I = {} THEN 0 ELSE CHOOSE i \in I : \A j \in I : j <= i

\* the decimal digits of n (format!("{}", n)), for the small n the model reaches
Digit(n) == CASE n = 0 -> "0" [] n = 1 -> "1" [] n = 2 -> "2" [] n = 3 -> "3"
              [] n = 4 -> "4" [] n = 5 -> "5" [] n = 6 -> "6" [] n = 7 -> "7"
              [] n = 8 -> "8" [] n = 9 -> "9"

RECURSIVE Decimal(_)
Decimal(n) == IF n < 10 THEN <<Digit(n)>> ELSE Decimal(n \div 10) \o <<Digit(n % 10)>>

\* ------------------------------------------------------- std::path::PathBuf
IsAbsolute(p) == Len(p) > 0 /\ p[1] = "/"

\* PathBuf::push / Path::join: an absolute argument replaces the path
PathPush(base, p) ==
    IF IsAbsolute(p) THEN p
    ELSE IF base = <<>> \/ base[Len(base)] = "/" THEN base \o p
    ELSE base \o <<"/">> \o p

FirstIdx(s, c) ==
    LET I == {i \in 1..Len(s) : s[i] = c}
    IN  IF I = {} THEN 0 ELSE CHOOSE i \in I : \A j \in I : i <= j

RECURSIVE Components(_)
\* the components between separators, "." dropped as Path::components does
Components(s) ==
    IF s = <<>> THEN <<>>
    ELSE LET k == FirstIdx(s, "/")
             first == IF k = 0 THEN s ELSE SubSeq(s, 1, k - 1)
             rest == IF k = 0 THEN <<>> ELSE SubSeq(s, k + 1, Len(s))
         IN  IF first = <<>> \/ first = <<".">> THEN Components(rest)
             ELSE <<first>> \o Components(rest)

\* Path::file_name: the last component, unless the path ends in ".."
FileName(p) ==
    LET cs == Components(p)
    IN  IF cs = <<>> \/ cs[Len(cs)] = <<".", ".">> THEN None ELSE Some(cs[Len(cs)])

\* Path::file_stem().unwrap_or_default()
FileStem(p) ==
    IF FileName(p) = None THEN <<>>
    ELSE LET n == Unwrap(FileName(p))
             k == LastIdx(n, ".")
         IN  IF k <= 1 THEN n ELSE SubSeq(n, 1, k - 1)

\* Path::extension().unwrap_or_default()
Extension(p) ==
    IF FileName(p) = None THEN <<>>
    ELSE LET n == Unwrap(FileName(p))
             k == LastIdx(n, ".")
         IN  IF k <= 1 THEN <<>> ELSE SubSeq(n, k + 1, Len(n))

\* PathBuf::set_extension: cut right after the file stem, then add "." ext
SetExtension(p, ext) ==
    IF FileName(p) = None THEN p
    ELSE LET n == Unwrap(FileName(p))
             k == LastIdx(p, "/")
             start == IF k = 0 THEN 0 ELSE k
             kept == SubSeq(p, 1, start + Len(FileStem(p)))
         IN  IF ext = <<>> THEN kept ELSE kept \o <<".">> \o ext

\* ------------------------------------------------------------- file system
\* A location is the sequence of its component names; dirs is the set of
\* directories, files maps each regular file to its bytes.
Root == <<>>
Parent(loc) == IF loc = <<>> THEN <<>> ELSE SubSeq(loc, 1, Len(loc) - 1)

RECURSIVE Walk(_, _, _)
\* the location the OS resolves components cs to, starting in directory cur:
\* None when a component that is passed through is no directory
Walk(cur, cs, D) ==
    IF cs = <<>> THEN Some(cur)
    ELSE IF cur \notin D THEN None
    ELSE IF Head(cs) = <<".", ".">> THEN Walk(Parent(cur), Tail(cs), D)
    ELSE Walk(Append(cur, Head(cs)), Tail(cs), D)

\* resolution of an absolute path string
Locate(p, D) == Walk(Root, Components(p), D)

\* Path::exists
PathExists(p, D, F) ==
    /\ Locate(p, D) # None
    /\ Unwrap(Locate(p, D)) \in D \cup DOMAIN F

RECURSIVE MkWalk(_, _, _, _)
\* std::fs::create_dir_all: every directory on the way is created; fails on a
\* component that is a regular file.  [ok, dirs]
MkWalk(cur, cs, D, F) ==
    IF cs = <<>> THEN [ok |-> TRUE, dirs |-> D]
    ELSE IF Head(cs) = <<".", ".">> THEN MkWalk(Parent(cur), Tail(cs), D, F)
    ELSE LET nxt == Append(cur, Head(cs))
         IN  IF nxt \in DOMAIN F THEN [ok |-> FALSE, dirs |-> D]
             ELSE MkWalk(nxt, Tail(cs), D \cup {nxt}, F)

create_dir_all(p, D, F) == MkWalk(Root, Components(p), D, F)

\* is location a at or below location d
Under(a, d) == IsPrefix(d, a)

\* ---------------------------------------------------------------- FileType
UnknownType ==
    [category |-> "Unknown", mime_type |-> "application/octet-stream", file_extension |-> <<>>]

\* what infer::get reads off the head of a buffer: Option<infer::Type>
InferGet(buf) ==
    IF buf = <<>> THEN None
    ELSE CASE Head(buf) = "P" ->
                Some([matcher |-> "Image", mime |-> "image/png", ext |-> S_png])
           [] Head(buf) = "H" ->
                Some([matcher |-> "Text", mime |-> "text/html", ext |-> S_html])
           [] OTHER -> None

\* impl From<Option<infer::Type>> for FileType
FromInfer(o) ==
    IF IsSome(o)
    THEN [category |-> CASE Unwrap(o).matcher = "Image" -> "Image"
                         [] Unwrap(o).matcher = "Text" -> "Text"
                         [] Unwrap(o).matcher = "Video" -> "Video"
                         [] OTHER -> "Other",
          mime_type |-> Unwrap(o).mime,
          file_extension |-> Unwrap(o).ext]
    ELSE UnknownType

\* the Content-Type headers a client sends: Option<&mime::Mime>
Mimes ==
    { None,
      Some([type |-> "image", subtype |-> S_png, essence |-> "image/png"]),
      Some([type |-> "image", subtype |-> S_jpeg, essence |-> "image/jpeg"]),
      Some([type |-> "text", subtype |-> S_html, essence |-> "text/html"]) }

\* impl From<Option<&mime::Mime>> for FileType
FromMime(o) ==
    IF IsSome(o)
    THEN [category |-> CASE Unwrap(o).type = "image" -> "Image"
                         [] Unwrap(o).type = "video" -> "Video"
                         [] Unwrap(o).type = "text" -> "Text"
                         [] OTHER -> "Other",
          mime_type |-> Unwrap(o).essence,
          file_extension |-> Unwrap(o).subtype]
    ELSE UnknownType

\* a reconciliation that trusts the client whenever it declares a type
Reconcile_declared_first(mimed, magic) ==
    IF mimed.category # "Unknown" THEN mimed ELSE magic

\* from_field, lines 56-74: declared against inferred
Reconcile(mimed, magic) ==
    IF mimed # magic
    THEN IF magic.category = "Unknown" /\ mimed.category # "Unknown" THEN mimed ELSE magic
    ELSE mimed

\* a gate that turns away only what has no type at all
check_is_allowed_type_known(file_type) == file_type.category # "Unknown"

\* check_is_allowed_type
check_is_allowed_type(file_type) == file_type.category = "Image"

\* ------------------------------------------------------------ HandlerError
\* impl ResponseError for HandlerError: status_code.  FailedToWriteImage is
\* used by image_upload.rs and has no arm in the enum as given; it is an
\* infrastructure failure (500).
status_code(kind) ==
    CASE kind = "InternalError" -> 500
      [] kind = "CouldntOpenImageFile" -> 404
      [] kind = "ImageHostingDisabled" -> 403
      [] kind = "FilePathNotAllowed" -> 403
      [] kind = "InvalidPath" -> 500
      [] kind = "ErrorHandlerFailed" -> 418
      [] kind = "ImageDoesNotExist" -> 404
      [] kind = "FailedToLoadImage" -> 500
      [] kind = "TokioRuntimeError" -> 500
      [] kind = "FileTooLarge" -> 413
      [] kind = "FileWasNotAnImage" -> 400
      [] kind = "FieldReadError" -> 500
      [] kind = "FailedToWriteImage" -> 500

\* impl From<MultipartError> for HandlerError
FromMultipartError(variant) ==
    IF variant = "Field" THEN "FieldReadError" ELSE "InternalError"

\* impl From<anyhow::Error> for HandlerError
FromAnyhow(is_io_error) ==
    IF is_io_error THEN "CouldntOpenImageFile" ELSE "InternalError"

\* HandlerError::to_multipart_err: the error becomes the source of a
\* MultipartError::Field, whose response carries the source's status
to_multipart_err(kind) == kind

\* Limits::try_consume_limits(bytes, false) as called at line 156: the new
\* total_limit_remaining, or None on MultipartError::Payload(Overflow)
try_consume_limits(remaining, bytes) ==
    IF bytes <= remaining THEN Some(remaining - bytes) ELSE None

\* ------------------------------------------------------ subdirectory regex
Regexes == {"default", "nogroup", "invalid"}

\* regex::Regex::new: does the pattern compile
Compiles(pattern) == pattern # "invalid"

\* DEFAULT_SUBDIR_REGEX (?P<subdir>.*)_[\d\w]{10}.[\w]+ : the positions of an
\* underscore that ten word characters, any character and a word character follow
DefaultMatchEnds(s) ==
    {j \in 1..Len(s) :
        /\ s[j] = "_"
        /\ j + 12 <= Len(s)
        /\ \A i \in 1..10 : s[j + i] \in WordChars
        /\ s[j + 12] \in WordChars}

\* regex.captures(filename).and_then(|c| c.name("subdir")): the group is greedy,
\* so it ends at the last such underscore.  "nogroup" is a pattern that matches
\* and has no group named subdir.
CaptureSubdir(pattern, s) ==
    IF pattern = "default" /\ DefaultMatchEnds(s) # {}
    THEN LET j == CHOOSE j \in DefaultMatchEnds(s) : \A k \in DefaultMatchEnds(s) : k <= j
         IN  Some(SubSeq(s, 1, j - 1))
    ELSE None

\* CheckedFileStream::get_filename_with_extension: the file type's extension
\* is added when the name has none
get_filename_with_extension(base_file_name, file_type) ==
    IF Extension(base_file_name) = <<>> /\ file_type.file_extension # <<>>
    THEN base_file_name \o <<".">> \o file_type.file_extension
    ELSE base_file_name

\* ------------------------------------------------------------------- state
VARIABLES
    config,      \* conf::Config, immutable once loaded
    dirs,        \* the directories of the file system
    files,       \* the regular files: location -> bytes
    fs0,         \* the file system before any request (history)
    SUBDIR_REGEX,\* the OnceCell: "unset" or "set"
    compiles,    \* calls of regex::Regex::new so far (history)
    clipboard,   \* holder of the clipboard Mutex, 0 when free
    rq           \* the requests in flight: id -> request state

vars == <<config, dirs, files, fs0, SUBDIR_REGEX, compiles, clipboard, rq>>

Reqs == DOMAIN rq

\* the state of one request as read_field starts on its field
NewReq(in) ==
    [ in |-> in,
      kind |-> "upload",
      pc |-> "probe",
      \* CheckedFileStream
      inference_buf |-> <<>>,
      buf_has_been_consumed |-> FALSE,
      bytes_copied |-> 0,
      field_pos |-> 1,
      file_type |-> UnknownType,
      base_file_name |-> <<>>,
      file_name |-> <<>>,
      \* choose_filename
      tgt_dir |-> <<>>,
      tgt_file |-> None,
      filename_suffix |-> 0,
      \* write_to_file
      total_limit_remaining |-> in.limit,
      written_bytes |-> 0,
      f |-> [kind |-> "none", loc |-> Root, bytes |-> <<>>, pos |-> 0],
      \* img: the path of the request, the file served
      img_loc |-> <<>>,
      served |-> None,
      \* outcome
      err |-> "",
      status |-> 0,
      body |-> [text |-> "", path |-> None],
      \* history
      yielded |-> <<>>,
      ended |-> FALSE,
      opened |-> {},
      clip_calls |-> 0,
      trail |-> <<>>,
      started |-> FALSE,
      overlap |-> FALSE,
      files0 |-> <<>>,
      mkdir_failed |-> FALSE,
      open_io_ok |-> FALSE,
      rewind_failed |-> FALSE ]

\* a request the server is working on
InFlight(q) == q.started /\ q.pc \notin {"Done", "Failed"}

\* the handler of request r is entered: what is in flight and on disk then
Enter(r) ==
    IF rq[r].started THEN rq[r]
    ELSE [rq[r] EXCEPT !.started = TRUE,
                       !.overlap = \E o \in Reqs \ {r} : InFlight(rq[o]),
                       !.files0 = files]

\* a failure that is recorded without ending the request
Failed_continues(q, kind) ==
    [q EXCEPT !.err = kind, !.status = status_code(kind)]

\* a handler failing with HandlerError kind
Failed(q, kind) ==
    [q EXCEPT !.pc = "Failed", !.err = kind, !.status = status_code(kind)]

\* the bytes a file handle reads from its position (in bytes) on; "~" is the
\* rest of a block the position lies inside
HandleBytes(q, F) ==
    LET all == IF q.f.kind = "path" THEN F[q.f.loc] ELSE q.f.bytes
        k == q.f.pos \div BlockLen
    IN  IF q.f.pos % BlockLen = 0 THEN SubSeq(all, k + 1, Len(all))
        ELSE IF k < Len(all) THEN <<"~">> \o SubSeq(all, k + 2, Len(all))
        ELSE <<>>

\* ---------------------------------------------- CheckedFileStream::from_field
\* Field::try_next on the underlying multipart field
FieldNext(q) ==
    IF q.field_pos <= Len(q.in.stream)
    THEN [kind |-> "chunk", chunk |-> q.in.stream[q.field_pos]]
    ELSE IF q.in.stream_err THEN [kind |-> "err", chunk |-> <<>>]
    ELSE [kind |-> "end", chunk |-> <<>>]

\* one turn of the probe loop, lines 39-54
from_field_read(r) ==
    /\ rq[r].pc = "probe"
    /\ LET q == Enter(r)
           it == FieldNext(q)
       IN  rq' = [rq EXCEPT ![r] =
             IF it.kind = "chunk"
             THEN [q EXCEPT !.inference_buf = q.inference_buf \o it.chunk,
                            !.bytes_copied = q.bytes_copied + ByteLen(it.chunk),
                            !.field_pos = q.field_pos + 1,
                            !.pc = IF q.bytes_copied + ByteLen(it.chunk) < INFERENCE_BUF_LEN
                                   THEN "probe" ELSE "infer"]
             ELSE IF it.kind = "end" THEN [q EXCEPT !.pc = "infer"]
             ELSE Failed(q, to_multipart_err(FromMultipartError("Payload")))]
    /\ UNCHANGED <<config, dirs, files, fs0, SUBDIR_REGEX, compiles, clipboard>>

\* lines 30-34 and 56-83: the file name and the reconciled type
from_field_infer(r) ==
    /\ rq[r].pc = "infer"
    /\ LET q == rq[r]
           mimed == FromMime(q.in.content_type)
           magic == FromInfer(InferGet(q.inference_buf))
       IN  rq' = [rq EXCEPT ![r] =
             [q EXCEPT !.file_type = Reconcile(mimed, magic),
                       !.base_file_name =
                           IF IsSome(q.in.filename) THEN Unwrap(q.in.filename) ELSE S_unnamed,
                       !.pc = "gate",
                       !.trail = Append(q.trail, "sniff")]]
    /\ UNCHANGED <<config, dirs, files, fs0, SUBDIR_REGEX, compiles, clipboard>>

\* read_field, lines 67-75: the type gate
read_field_gate(r) ==
    /\ rq[r].pc = "gate"
    /\ LET q == rq[r]
       IN  rq' = [rq EXCEPT ![r] =
             IF ~check_is_allowed_type(q.file_type)
             THEN Failed(q, to_multipart_err("FileWasNotAnImage"))
             ELSE [q EXCEPT !.file_name =
                               get_filename_with_extension(q.base_file_name, q.file_type),
                            !.pc = "choose",
                            !.trail = Append(q.trail, "gate")]]
    /\ UNCHANGED <<config, dirs, files, fs0, SUBDIR_REGEX, compiles, clipboard>>

\* ------------------------------------------------------------ choose_filename
\* subdir_regex: SUBDIR_REGEX.get_or_try_init(Regex::new(pattern)); the cell is
\* set only by a compilation that succeeds.  [ok, cell, compiled]
subdir_regex(cell, pattern) ==
    IF cell = "set" THEN [ok |-> TRUE, cell |-> "set", compiled |-> 0]
    ELSE IF Compiles(pattern) THEN [ok |-> TRUE, cell |-> "set", compiled |-> 1]
    ELSE [ok |-> FALSE, cell |-> "unset", compiled |-> 1]

\* choose_subdirectory: Option<String>
choose_subdirectory(cfg, cell, filename) ==
    IF subdir_regex(cell, cfg.subdirectory_regex).ok
    THEN CaptureSubdir(cfg.subdirectory_regex, filename)
    ELSE None

\* lines 181-185: the directory the file goes to
TargetDir(cfg, cell, filename) ==
    LET sub == choose_subdirectory(cfg, cell, filename)
    IN  IF IsSome(sub) THEN PathPush(Unwrap(cfg.target_dir), Unwrap(sub))
        ELSE Unwrap(cfg.target_dir)

\* lines 195-201: the candidate tried after n collisions
Candidate(base_filename, n) ==
    SetExtension(FileStem(base_filename) \o <<"_">> \o Decimal(n), Extension(base_filename))

\* read_field lines 85-91 for a choose_filename that returned None
NoTarget(q) ==
    [q EXCEPT !.tgt_file = None, !.pc = "tempfile", !.trail = Append(q.trail, "place")]

\* a create_dir_all failure that aborts the request
create_dir_failed_aborts(q) == Failed(q, to_multipart_err("FailedToWriteImage"))

\* lines 186-190: create_dir_all failed, the error is logged, return None
create_dir_failed(q) == NoTarget(q)

\* lines 179-193: target directory, create_dir_all, first candidate
choose_filename_dir(r) ==
    /\ rq[r].pc = "choose"
    /\ LET q == rq[r] IN
       IF config.target_dir = None
       THEN /\ rq' = [rq EXCEPT ![r] = NoTarget(q)]
            /\ UNCHANGED <<dirs, SUBDIR_REGEX, compiles>>
       ELSE LET re == subdir_regex(SUBDIR_REGEX, config.subdirectory_regex)
                dir == TargetDir(config, SUBDIR_REGEX, q.file_name)
                mk == create_dir_all(dir, dirs, files)
            IN  /\ SUBDIR_REGEX' = re.cell
                /\ compiles' = compiles + re.compiled
                /\ \E io_ok \in BOOLEAN :
                     IF io_ok /\ mk.ok
                     THEN /\ dirs' = mk.dirs
                          /\ rq' = [rq EXCEPT ![r] =
                                [q EXCEPT !.tgt_dir = dir,
                                          !.filename_suffix = 0,
                                          !.tgt_file = Some(PathPush(dir, q.file_name)),
                                          !.pc = "collide"]]
                     ELSE /\ dirs' = IF mk.ok THEN dirs ELSE mk.dirs
                          /\ rq' = [rq EXCEPT ![r] =
                                create_dir_failed([q EXCEPT !.tgt_dir = dir,
                                                            !.mkdir_failed = TRUE])]
    /\ UNCHANGED <<config, files, fs0, clipboard>>

\* lines 194-203: one test of the while condition
choose_filename_loop(r) ==
    /\ rq[r].pc = "collide"
    /\ LET q == rq[r] IN
       IF PathExists(Unwrap(q.tgt_file), dirs, files)
       THEN /\ q.filename_suffix < MaxSuffix
            /\ rq' = [rq EXCEPT ![r] =
                  [q EXCEPT !.tgt_file =
                                Some(PathPush(q.tgt_dir, Candidate(q.file_name, q.filename_suffix))),
                            !.filename_suffix = q.filename_suffix + 1]]
       ELSE rq' = [rq EXCEPT ![r] =
                  [q EXCEPT !.pc = "open", !.trail = Append(q.trail, "place")]]
    /\ UNCHANGED <<config, dirs, files, fs0, SUBDIR_REGEX, compiles, clipboard>>

\* ------------------------------------------------- write_to_path / tempfile
\* an open with create_new, which a file that is there makes fail
open_create_new(at, io_ok, D, F) ==
    io_ok /\ at # None /\ Unwrap(at) \notin D \cup DOMAIN F

\* OpenOptions write, create, truncate, read: does open succeed at the
\* location at; a file that is there is no obstacle
open_create_truncate(at, io_ok, D, F) ==
    io_ok /\ at # None /\ Unwrap(at) \notin D

\* lines 130-137: the file is opened, created or truncated
write_to_path_open(r) ==
    /\ rq[r].pc = "open"
    /\ LET at == Locate(Unwrap(rq[r].tgt_file), dirs)
       IN  \E io_ok \in BOOLEAN :
             LET q == [rq[r] EXCEPT !.open_io_ok = io_ok] IN
             IF open_create_truncate(at, io_ok, dirs, files)
             THEN /\ files' = (Unwrap(at) :> <<>>) @@ files
                  /\ rq' = [rq EXCEPT ![r] =
                        [q EXCEPT !.f = [kind |-> "path", loc |-> Unwrap(at),
                                         bytes |-> <<>>, pos |-> 0],
                                  !.opened = q.opened \cup {Unwrap(at)},
                                  !.pc = "write"]]
             ELSE /\ files' = files
                  /\ rq' = [rq EXCEPT ![r] = Failed(q, to_multipart_err("FailedToWriteImage"))]
    /\ UNCHANGED <<config, dirs, fs0, SUBDIR_REGEX, compiles, clipboard>>

\* lines 110-118: tempfile::tempfile()
write_to_new_tempfile_open(r) ==
    /\ rq[r].pc = "tempfile"
    /\ LET q == rq[r] IN
       \E io_ok \in BOOLEAN :
         rq' = [rq EXCEPT ![r] =
           IF io_ok
           THEN [q EXCEPT !.f = [kind |-> "temp", loc |-> Root, bytes |-> <<>>, pos |-> 0],
                          !.pc = "write"]
           ELSE Failed(q, to_multipart_err("FailedToWriteImage"))]
    /\ UNCHANGED <<config, dirs, files, fs0, SUBDIR_REGEX, compiles, clipboard>>

\* ------------------------------------------------------------- write_to_file
\* impl Stream for CheckedFileStream: poll_next, Ready outcomes.
\* [kind, chunk, field_pos, buf_has_been_consumed]
poll_next(q) ==
    IF ~q.buf_has_been_consumed /\ q.inference_buf # <<>>
    THEN [kind |-> "chunk", chunk |-> q.inference_buf,
          field_pos |-> q.field_pos,
          buf_has_been_consumed |-> q.buf_has_been_consumed]
    ELSE [kind |-> FieldNext(q).kind, chunk |-> FieldNext(q).chunk,
          field_pos |-> IF FieldNext(q).kind = "chunk" THEN q.field_pos + 1 ELSE q.field_pos,
          buf_has_been_consumed |-> q.buf_has_been_consumed]

\* the limit check of line 156
ConsumeLimits(q, chunk) == try_consume_limits(q.total_limit_remaining, ByteLen(chunk))

\* AsyncWriteExt::write_all at the handle's position (in bytes; the write
\* loop keeps it a multiple of the block length)
WriteAt(bytes, pos, chunk) ==
    LET k == pos \div BlockLen
        padded == IF Len(bytes) < k THEN bytes \o Rep("0", k - Len(bytes)) ELSE bytes
    IN  SubSeq(padded, 1, k) \o chunk \o SubSeq(padded, k + Len(chunk) + 1, Len(padded))

\* the calls of debug_file_handle that can fail
DebugFaults == {"none", "seek", "read", "seek_back"}

Min(a, b) == IF a <= b THEN a ELSE b

\* debug_file_handle, lines 286-294: seek to the start, read_buf into a 64-byte
\* vector, seek to the start again; each ? returns early.  [ok, pos]
debug_file_handle(pos, len, fault) ==
    CASE fault = "seek" -> [ok |-> FALSE, pos |-> pos]
      [] fault = "read" -> [ok |-> FALSE, pos |-> 0]
      [] fault = "seek_back" -> [ok |-> FALSE, pos |-> Min(len, DEBUG_BUF_LEN)]
      [] OTHER -> [ok |-> TRUE, pos |-> 0]

\* the end of write_to_file for a tempfile, lines 164-166 and 121-122: the
\* result of debug_file_handle is dropped
TempfileWritten(s, d1) ==
    LET dbg == debug_file_handle(s.f.pos, ByteLen(s.f.bytes), d1)
    IN  [s EXCEPT !.f.pos = dbg.pos, !.rewind_failed = ~dbg.ok,
                  !.ended = TRUE, !.pc = "decode",
                  !.trail = Append(s.trail, "write")]

\* the end of write_to_file for a path, lines 164-166 and 140-146: the seek
\* is checked, the second debug_file_handle is unwrapped (a panic)
PathWritten(s, len, d1, seek_ok, d2) ==
    LET dbg == debug_file_handle(s.f.pos, len, d1)
        e == [s EXCEPT !.ended = TRUE, !.f.pos = dbg.pos]
    IN  IF ~seek_ok THEN Failed(e, to_multipart_err("FailedToWriteImage"))
        ELSE IF ~debug_file_handle(0, len, d2).ok
        THEN [e EXCEPT !.f.pos = debug_file_handle(0, len, d2).pos,
                       !.pc = "Failed", !.err = "panic"]
        ELSE [e EXCEPT !.f.pos = 0, !.pc = "decode",
                       !.trail = Append(s.trail, "write")]

\* one turn of the loop of lines 155-163, or its end
write_to_file(r) ==
    /\ rq[r].pc = "write"
    /\ LET q == rq[r]
           it == poll_next(q)
           s == [q EXCEPT !.field_pos = it.field_pos,
                          !.buf_has_been_consumed = it.buf_has_been_consumed]
       IN  CASE it.kind = "err" ->
                  /\ rq' = [rq EXCEPT ![r] = Failed(s, to_multipart_err("FieldReadError"))]
                  /\ files' = files
             [] it.kind = "end" ->
                  /\ \E d1, d2 \in DebugFaults, seek_ok \in BOOLEAN :
                        rq' = [rq EXCEPT ![r] =
                          IF q.f.kind = "temp" THEN TempfileWritten(s, d1)
                          ELSE PathWritten(s, ByteLen(files[q.f.loc]), d1, seek_ok, d2)]
                  /\ files' = files
             [] it.kind = "chunk" ->
                  LET y == [s EXCEPT !.yielded = q.yielded \o it.chunk]
                      left == ConsumeLimits(q, it.chunk)
                  IN  IF left = None
                      THEN /\ rq' = [rq EXCEPT ![r] =
                                 Failed(y, to_multipart_err(FromMultipartError("Payload")))]
                           /\ files' = files
                      ELSE \E io_ok \in BOOLEAN :
                             IF io_ok
                             THEN /\ rq' = [rq EXCEPT ![r] =
                                        [y EXCEPT !.total_limit_remaining = Unwrap(left),
                                                  !.written_bytes = q.written_bytes + ByteLen(it.chunk),
                                                  !.f.bytes = IF q.f.kind = "temp"
                                                              THEN WriteAt(q.f.bytes, q.f.pos, it.chunk)
                                                              ELSE q.f.bytes,
                                                  !.f.pos = q.f.pos + ByteLen(it.chunk)]]
                                  /\ files' = IF q.f.kind = "path"
                                              THEN [files EXCEPT ![q.f.loc] =
                                                       WriteAt(files[q.f.loc], q.f.pos, it.chunk)]
                                              ELSE files
                             ELSE /\ rq' = [rq EXCEPT ![r] =
                                        Failed([y EXCEPT !.total_limit_remaining = Unwrap(left)],
                                               to_multipart_err("FailedToWriteImage"))]
                                  /\ files' = files
    /\ UNCHANGED <<config, dirs, fs0, SUBDIR_REGEX, compiles, clipboard>>

\* ------------------------------------------------- insert_file_to_clipboard
\* image::io::Reader::with_guessed_format().decode(): the bytes decode when
\* they are the bytes of a valid image, whole
Decodes(bytes, in) == in.valid /\ bytes # <<>> /\ bytes = Flat(in.stream)

\* a drop that removes the file written to a path
drop_file_unlink(q, F) ==
    IF q.f.kind = "path" THEN [loc \in DOMAIN F \ {q.f.loc} |-> F[loc]] ELSE F

\* the File moved into load_image_from_file is dropped with the reader: the
\* handle is closed, what it wrote to a path stays
drop_file(q, F) == F

\* load_image_from_file, and the ? of line 264
load_image_from_file(r) ==
    /\ rq[r].pc = "decode"
    /\ LET q == rq[r] IN
       /\ rq' = [rq EXCEPT ![r] =
             IF Decodes(HandleBytes(q, files), q.in)
             THEN [q EXCEPT !.pc = "clip_lock", !.trail = Append(q.trail, "decode")]
             ELSE Failed(q, FromAnyhow(FALSE))]
       /\ files' = drop_file(q, files)
    /\ UNCHANGED <<config, dirs, fs0, SUBDIR_REGEX, compiles, clipboard>>

\* a lock that is granted whoever holds it
MutexFree_always(holder) == TRUE

\* tokio::sync::Mutex::lock resolves when no guard is alive
MutexFree(holder) == holder = 0

\* OpenHandles::clip_image, line 46: self.clipboard.lock().await
clip_image_lock(r) ==
    /\ rq[r].pc = "clip_lock"
    /\ MutexFree(clipboard)
    /\ clipboard' = r
    /\ rq' = [rq EXCEPT ![r] = [Enter(r) EXCEPT !.pc = "clip_set"]]
    /\ UNCHANGED <<config, dirs, files, fs0, SUBDIR_REGEX, compiles>>

\* the response of upload, lines 252-255
Response(q) ==
    IF IsSome(q.tgt_file) THEN [text |-> "path", path |-> q.tgt_file]
    ELSE [text |-> "clipboard only", path |-> None]

\* clip_image, lines 49-52: set_image, the guard dropped on return; then
\* insert_file_to_clipboard lines 265-271 and upload lines 251-255
clip_image_set(r) ==
    /\ rq[r].pc = "clip_set"
    /\ clipboard = r
    /\ clipboard' = 0
    /\ LET q == [rq[r] EXCEPT !.clip_calls = rq[r].clip_calls + 1] IN
       \E set_ok \in BOOLEAN :
         rq' = [rq EXCEPT ![r] =
           IF set_ok
           THEN [q EXCEPT !.pc = "Done", !.status = 200,
                          !.body = IF q.kind = "upload" THEN Response(q) ELSE q.body,
                          !.trail = Append(q.trail, "clip")]
           ELSE Failed(q, FromAnyhow(FALSE))]
    /\ UNCHANGED <<config, dirs, files, fs0, SUBDIR_REGEX, compiles>>

\* ------------------------------------------------------------- imagehost
\* Path::canonicalize: the location of a path that exists
canonicalize(p, D, F) == IF PathExists(p, D, F) THEN Locate(p, D) ELSE None

\* a containment test that lets every path through
StartsWith_any(loc, base) == TRUE

\* Path::starts_with: the components of base, as written, lead those of the
\* canonical location
StartsWith(loc, base) == IsAbsolute(base) /\ IsPrefix(Components(base), loc)

\* imagehost::img, lines 20-55; NamedFile::open serves a regular file
img_handler(q, cfg, D, F, io_ok) ==
    IF cfg.target_dir = None THEN Failed(q, "ImageHostingDisabled")
    ELSE LET tgt_dir == Unwrap(cfg.target_dir)
             canonical == canonicalize(PathPush(tgt_dir, q.img_loc), D, F)
         IN  IF canonical = None THEN Failed(q, "InvalidPath")
             ELSE IF ~StartsWith(Unwrap(canonical), tgt_dir)
             THEN Failed(q, "FilePathNotAllowed")
             ELSE IF Unwrap(canonical) \in D \cup DOMAIN F
             THEN IF io_ok /\ Unwrap(canonical) \in DOMAIN F
                  THEN [q EXCEPT !.pc = "Done", !.status = 200, !.served = canonical]
                  ELSE Failed(q, "InvalidPath")
             ELSE Failed(q, "ImageDoesNotExist")

\* webserver::start, lines 73-75: the route /img/{path:.*} is there only
\* when enable_imagehost is set
ImgRouteMounted(cfg) == cfg.enable_imagehost

\* a GET of /img/<img_loc>, routed to img or answered 404 by the framework
\* when the route is not there (kind "get"); or a call of the public handler
\* imagehost::img itself (kind "img")
img(r) ==
    /\ rq[r].pc = "img"
    /\ \E io_ok \in BOOLEAN :
         rq' = [rq EXCEPT ![r] =
           IF rq[r].kind = "img" \/ ImgRouteMounted(config)
           THEN img_handler(Enter(r), config, dirs, files, io_ok)
           ELSE [Enter(r) EXCEPT !.pc = "Failed", !.err = "NoRoute", !.status = 404]]
    /\ UNCHANGED <<config, dirs, files, fs0, SUBDIR_REGEX, compiles, clipboard>>

\* ------------------------------------------------------------ specification
Next ==
    \/ \E r \in Reqs : from_field_read(r)
    \/ \E r \in Reqs : from_field_infer(r)
    \/ \E r \in Reqs : read_field_gate(r)
    \/ \E r \in Reqs : choose_filename_dir(r)
    \/ \E r \in Reqs : choose_filename_loop(r)
    \/ \E r \in Reqs : write_to_path_open(r)
    \/ \E r \in Reqs : write_to_new_tempfile_open(r)
    \/ \E r \in Reqs : write_to_file(r)
    \/ \E r \in Reqs : load_image_from_file(r)
    \/ \E r \in Reqs : clip_image_lock(r)
    \/ \E r \in Reqs : clip_image_set(r)
    \/ \E r \in Reqs : img(r)

\* the multipart total limits read_field is handed (Limits.total_limit_remaining)
Limits == {k * BlockLen : k \in 0..MaxLimitBlocks}

\* the location of the configured target directory /t
L_t == <<<<"t">>>>

MimePng == Some([type |-> "image", subtype |-> S_png, essence |-> "image/png"])

\* a field: what the client sends and the framework hands over
Fields(names, mimes, streams, errs, limits) ==
    {in \in [filename : names, content_type : mimes, stream : streams,
             stream_err : errs, valid : BOOLEAN, limit : limits] :
        in.valid => (in.stream # <<>> /\ Head(Flat(in.stream)) = "P")}

\* a check_options that leaves imagehost as the file has it
check_options_keep(c) == c

\* Config::check_options: the canonical form of target_dir is computed and
\* dropped, imagehost is switched off when there is no target_dir
check_options(c) ==
    [c EXCEPT !.enable_imagehost = c.enable_imagehost /\ c.target_dir # None]

\* the configurations Config::load returns, imagehost off; asked_imagehost
\* keeps what the configuration file said (history)
Configs(tgts, subs, regexes, sizes) ==
    {check_options(c) : c \in
        [target_dir : tgts, enable_imagehost : {FALSE}, asked_imagehost : {FALSE},
         enable_subdirectories : subs, subdirectory_regex : regexes,
         max_image_size : sizes]}

\* the configurations Config::load returns for a server that may host images
HostConfigs(tgts) ==
    {check_options(c) : c \in
        {d \in [target_dir : tgts, enable_imagehost : BOOLEAN, asked_imagehost : BOOLEAN,
                enable_subdirectories : {FALSE}, subdirectory_regex : {"default"},
                max_image_size : {BlockLen}] :
            d.asked_imagehost = d.enable_imagehost}}

\* check_options line 73: the server starts only when target_dir resolves
Loads(cfg, D, F) ==
    cfg.target_dir # None => canonicalize(Unwrap(cfg.target_dir), D, F) # None

\* the file system with the regular files at the locations of S below /t
FilesAt(S) == [loc \in S |-> <<"x">>]

\* a direct call of the public OpenHandles::clip_image with a decoded image
ClipCall ==
    [NewReq([filename |-> None, content_type |-> None, stream |-> <<>>,
             stream_err |-> FALSE, valid |-> FALSE, limit |-> 0])
        EXCEPT !.kind = "clip", !.pc = "clip_lock"]

\* a GET of /img/<loc>
GetCall(loc) == [ClipCall EXCEPT !.kind = "get", !.pc = "img", !.img_loc = loc]

\* a direct call of the public imagehost::img with the path loc
ImgCall(loc) == [ClipCall EXCEPT !.kind = "img", !.pc = "img", !.img_loc = loc]

\* the file system and the process as the server starts
InitFs(dirsets, filesets) ==
    /\ dirs \in dirsets
    /\ files \in {FilesAt(S) : S \in filesets}
    /\ fs0 = [dirs |-> dirs, files |-> files]
    /\ SUBDIR_REGEX = "unset"
    /\ compiles = 0
    /\ clipboard = 0

\* one request: an upload or a clip under cfgs, or a GET under hostcfgs
InitWith(cfgs, fields, hostcfgs, imgs, dirsets, filesets) ==
    /\ InitFs(dirsets, filesets)
    /\ \/ /\ config \in cfgs
          /\ rq \in {(1 :> NewReq(in)) : in \in fields}
       \/ /\ config \in cfgs
          /\ rq = (1 :> ClipCall)
       \/ /\ config \in hostcfgs
          /\ rq \in {(1 :> GetCall(loc)) : loc \in imgs}
                   \cup {(1 :> ImgCall(loc)) : loc \in imgs}
    /\ Loads(config, dirs, files)

\* uploads of every stream, type and limit, one file name
Init ==
    InitWith(Configs({None, Some(S_t)}, {FALSE}, {"default"},
                     {BlockLen, (MaxLimitBlocks + 1) * BlockLen}),
             Fields({Some(S_a_png)}, Mimes, Streams, BOOLEAN, Limits),
             HostConfigs({None, Some(S_t)}), {S_a_png},
             {{Root, L_t}},
             {{}, {L_t \o <<S_a_png>>}})

Spec == Init /\ [][Next]_vars

\* the file names clients send: plain, dotted stem, the classified example,
\* absolute, parent-relative, with a directory, and none
Names ==
    { None, Some(S_a_png), Some(S_a_b_png), Some(S_myapp_png), Some(S_abs_png),
      Some(S_up_png), Some(S_sub_png), Some(S_up_id_png), Some(S_abs_id_png) }

L_e == <<<<"e">>>>

\* uploads of every file name into every file system, every configuration
InitPath ==
    InitWith(Configs({None, Some(S_t)}, BOOLEAN, Regexes, {(MaxLimitBlocks + 1) * BlockLen}),
             Fields(Names, {MimePng}, {<<>>, <<Rep("P", 1)>>}, {FALSE},
                    {MaxLimitBlocks * BlockLen}),
             HostConfigs({None, Some(S_t)}), {S_a_png},
             {{Root, L_t}, {Root, L_t, L_e}},
             SUBSET {L_t \o <<S_a_png>>, L_t \o <<S_a_0_png>>, L_t \o <<S_a_b_png>>})

SpecPath == InitPath /\ [][Next]_vars

\* the paths clients ask /img for: a stored file, one that is not there, and
\* three ways out of the directory
ImgLocs == {S_a_png, S_b_png, S_up_e_a_png, S_abs_png, S_up_png}

\* GETs of every path under every configuration, target_dir also written
\* with a detour (/e/../t); uploads of every stream
InitRead ==
    InitWith(Configs({None, Some(S_t)}, {FALSE}, {"default"}, {BlockLen}),
             Fields({Some(S_a_png)}, {MimePng}, Streams, {FALSE}, Limits),
             HostConfigs({None, Some(S_t), Some(S_e_up_t)}), ImgLocs,
             {{Root, L_t, L_e}},
             {{L_t \o <<S_a_png>>, L_e \o <<S_a_png>>}, {L_e \o <<S_a_png>>},
              {L_t \o <<S_a_png>>, L_e \o <<S_a_png>>, <<S_a_png>>}})

SpecRead == InitRead /\ [][Next]_vars

\* the requests two clients send at once
ConcReqs ==
    {NewReq(in) : in \in Fields({Some(S_a_png), Some(S_a_b_png)}, {MimePng},
                                {<<>>, <<Rep("P", 1)>>}, {FALSE}, {BlockLen})}
    \cup {ClipCall, GetCall(S_a_png)}

\* two requests in flight, the target directory set, every regex
InitConc ==
    /\ InitFs({{Root, L_t}}, {{}})
    /\ config \in HostConfigs({Some(S_t)}) \cup
                   Configs({Some(S_t)}, {FALSE}, {"default", "invalid"}, {BlockLen})
    /\ rq \in {(1 :> a) @@ (2 :> b) : a \in ConcReqs, b \in ConcReqs}

SpecConc == InitConc /\ [][Next]_vars

\* ------------------------------------------------------------------- claims
Uploads == {r \in Reqs : rq[r].kind = "upload"}

\* from_field has returned for q
Sniffed(q) == Len(q.trail) >= 1

\* C1 (as claimed): the bytes CheckedFileStream hands downstream are, at every
\* moment, the first bytes of the original stream (the probe buffer once, then
\* the remaining chunks in order), and when it reports the end they are the
\* whole of it.
C1_StreamRoundTrip ==
    \A r \in Uploads :
        /\ IsPrefix(rq[r].yielded, Flat(rq[r].in.stream))
        /\ rq[r].ended => rq[r].yielded = Flat(rq[r].in.stream)

\* the upload of q is one claim C2 speaks of
C2_Case(q) ==
    /\ config.target_dir = None
    /\ ~q.in.stream_err
    /\ q.in.valid
    /\ ByteLen(Flat(q.in.stream)) <= q.in.limit
    /\ ByteLen(Flat(q.in.stream)) <= config.max_image_size
    /\ Sniffed(q) /\ q.file_type.category = "Image"

\* C2 (as claimed): an image upload within the size limit that decodes, with
\* targetDir unset, ends only in Done (short of an I/O or clipboard failure),
\* with the response "clipboard only", no file or directory created and the
\* clipboard invoked exactly once.
C2_ClipboardOnly ==
    \A r \in Uploads :
        C2_Case(rq[r]) =>
            /\ rq[r].pc = "Failed" =>
                  rq[r].err = "FailedToWriteImage" \/ rq[r].clip_calls = 1
            /\ rq[r].pc = "Done" =>
                  /\ rq[r].body = [text |-> "clipboard only", path |-> None]
                  /\ rq[r].clip_calls = 1
                  /\ files = fs0.files /\ dirs = fs0.dirs

\* C3: once from_field has reconciled a category other than Image, the
\* request is at the gate or has failed there with FileWasNotAnImage (400), and
\* it has created no directory, opened no target or temporary file and written
\* no byte.
C3_GateBeforeWrite ==
    \A r \in Uploads :
        (Sniffed(rq[r]) /\ rq[r].file_type.category # "Image") =>
            /\ rq[r].pc \in {"gate", "Failed"}
            /\ rq[r].pc = "Failed" =>
                  rq[r].err = "FileWasNotAnImage" /\ rq[r].status = 400
            /\ rq[r].opened = {} /\ rq[r].f.kind = "none"
            /\ rq[r].written_bytes = 0 /\ rq[r].yielded = <<>>
            /\ dirs = fs0.dirs /\ files = fs0.files

\* C3 witness: declared image/png, the magic number says text, rejected
C3_Witness ==
    \E r \in Uploads :
        /\ rq[r].in.content_type = MimePng
        /\ FromInfer(InferGet(rq[r].inference_buf)).category = "Text"
        /\ rq[r].pc = "Failed" /\ rq[r].err = "FileWasNotAnImage"
        /\ rq[r].status = 400

\* the type the claim names for a declared and an inferred type
C4_Expected(declared, inferred) ==
    IF inferred.category = "Unknown" /\ declared.category # "Unknown"
    THEN declared ELSE inferred

\* C4: the type from_field settles on is the inferred one, except that it is
\* the declared one when the inferred category is Unknown and the declared is not.
C4_Reconciliation ==
    \A r \in Uploads :
        Sniffed(rq[r]) =>
            rq[r].file_type =
                C4_Expected(FromMime(rq[r].in.content_type),
                            FromInfer(InferGet(Flat(rq[r].in.stream))))

\* C4 witness: both known and disagreeing (declared image/jpeg, a PNG
\* signature), the inferred type taken
C4_Witness ==
    \E r \in Uploads :
        /\ Sniffed(rq[r])
        /\ FromMime(rq[r].in.content_type).mime_type = "image/jpeg"
        /\ rq[r].file_type.mime_type = "image/png"

\* C5 (as claimed): the writer never writes a byte past config.max_image_size
C5_MaxImageSizeEnforced ==
    \A r \in Uploads : rq[r].written_bytes <= config.max_image_size

\* C6 (as claimed): a request that fails because the cumulative byte count
\* exceeded the limit fails with FileTooLarge and status 413
C6_TooLargeIs413 ==
    \A r \in Uploads :
        (rq[r].pc = "Failed" /\ ByteLen(rq[r].yielded) > rq[r].in.limit) =>
            rq[r].err = "FileTooLarge" /\ rq[r].status = 413

\* the candidate the specification names after n collisions: stem_n.ext
SpecCandidate(base, n) ==
    FileStem(base) \o <<"_">> \o Decimal(n)
        \o (IF Extension(base) = <<>> THEN <<>> ELSE <<".">> \o Extension(base))

\* the i-th path of the sequence baseFilename, stem_0.ext, stem_1.ext, ... in dir
SpecSequence(dir, base, i) ==
    PathPush(dir, IF i = 0 THEN base ELSE SpecCandidate(base, i - 1))

\* the first path of that sequence at which nothing exists
FirstFree(dir, base, D, F) ==
    LET I == {i \in 0..(MaxSuffix + 1) : ~PathExists(SpecSequence(dir, base, i), D, F)}
    IN  IF I = {} THEN None
        ELSE Some(SpecSequence(dir, base, CHOOSE i \in I : \A j \in I : i <= j))

\* choose_filename has returned Some(tgt_file) for q
Resolved(q) == q.pc = "open"

\* C7 (as claimed): the path choose_filename returns is the first path of the
\* sequence baseFilename, stem_0.ext, stem_1.ext, ... in the classified
\* directory at which nothing exists.
C7_FirstFreeCandidate ==
    \A r \in Uploads :
        Resolved(rq[r]) =>
            /\ ~PathExists(Unwrap(rq[r].tgt_file), dirs, files)
            /\ rq[r].tgt_file = FirstFree(rq[r].tgt_dir, rq[r].file_name, dirs, files)

\* C7, the example of the claim, which the code meets: with a.png and a_0.png
\* present, a.png resolves to a_1.png
C7_Example ==
    \A r \in Uploads :
        ( /\ Resolved(rq[r])
          /\ rq[r].file_name = S_a_png
          /\ rq[r].tgt_dir = S_t
          /\ {L_t \o <<S_a_png>>, L_t \o <<S_a_0_png>>} \subseteq DOMAIN files )
        => rq[r].tgt_file = Some(S_t \o <<"/">> \o S_a_1_png)

\* C8 (as claimed): the path choose_filename returns resolves to a location
\* under the configured target directory, and its parent directory exists.
C8_UnderTargetDir ==
    \A r \in Uploads :
        Resolved(rq[r]) =>
            LET at == Locate(Unwrap(rq[r].tgt_file), dirs)
                root == Locate(Unwrap(config.target_dir), dirs)
            IN  /\ at # None
                /\ Parent(Unwrap(at)) \in dirs
                /\ Under(Unwrap(at), Unwrap(root))

\* C9 (as claimed): with enable_subdirectories false the regex is not applied,
\* so the directory of every target is the configured target directory itself.
C9_RegexOnlyWhenEnabled ==
    \A r \in Uploads :
        (~config.enable_subdirectories /\ IsSome(rq[r].tgt_file)) =>
            rq[r].tgt_dir = Unwrap(config.target_dir)

\* the text targetDir/[subdir/]name
Layout(target_dir, sub, name) ==
    target_dir \o (IF IsSome(sub) THEN <<"/">> \o Unwrap(sub) ELSE <<>>) \o <<"/">> \o name

\* the subdirectory the claim names: the group subdir of a match of a regex
\* that compiles
C10_Subdir(pattern, filename) ==
    IF Compiles(pattern) THEN CaptureSubdir(pattern, filename) ELSE None

\* C10 (as claimed): the target is targetDir/<subdir>/<filename> when the
\* regex matches with the group subdir, and targetDir/<filename> when not, the
\* file name being the one sent or its stem_n.ext after collisions.
C10_ClassifiedLayout ==
    \A r \in Uploads :
        Resolved(rq[r]) =>
            \E name \in {rq[r].file_name}
                        \cup {SpecCandidate(rq[r].file_name, n) : n \in 0..MaxSuffix} :
                rq[r].tgt_file =
                    Some(Layout(Unwrap(config.target_dir),
                                C10_Subdir(config.subdirectory_regex, rq[r].file_name),
                                name))

\* C10, the example of the claim, which the code meets: the default regex
\* and myapp_ab12cd34ef.png give targetDir/myapp/myapp_ab12cd34ef.png
C10_Example ==
    \A r \in Uploads :
        ( /\ Resolved(rq[r])
          /\ rq[r].file_name = S_myapp_png
          /\ config.subdirectory_regex = "default" )
        => rq[r].tgt_file = Some(S_t \o <<"/">> \o S_myapp \o <<"/">> \o S_myapp_png)

\* stage s of the pipeline has completed for q
Staged(q, s) == \E i \in DOMAIN q.trail : q.trail[i] = s

\* the step of C12: create_dir_all fails for request r
C12_Step(r) ==
    (~rq[r].mkdir_failed /\ rq'[r].mkdir_failed) =>
        /\ rq'[r] = [NoTarget(rq[r]) EXCEPT !.mkdir_failed = TRUE,
                                            !.tgt_dir = rq'[r].tgt_dir]
        /\ files' = files

\* C12: a create_dir_all that fails leaves the request where an unset
\* target_dir leaves it (no target, no error, the tempfile next), and from then
\* on the request opens no path and answers with no path.
C12_DegradesToEphemeral ==
    /\ [](\A r \in Uploads :
            rq[r].mkdir_failed =>
                /\ rq[r].tgt_file = None
                /\ rq[r].opened = {}
                /\ rq[r].f.kind \in {"none", "temp"}
                /\ files = fs0.files)
    /\ [][\A r \in Uploads : C12_Step(r)]_vars

\* create_dir_all failed and the upload went through a tempfile to decode
C12_Witness ==
    \E r \in Uploads :
        /\ rq[r].mkdir_failed
        /\ rq[r].f.kind = "temp"
        /\ rq[r].pc = "decode"

\* C13 (as claimed): once a request whose write to a target path failed has
\* ended in Failed, the file it created is not at that path any more.
C13_PartialFileDiscarded ==
    \A r \in Uploads :
        (rq[r].pc = "Failed" /\ rq[r].f.kind = "path" /\ ~Staged(rq[r], "write")) =>
            rq[r].f.loc \notin DOMAIN files

\* the content of the file behind the handle of q
HandleContent(q, F) == IF q.f.kind = "path" THEN F[q.f.loc] ELSE q.f.bytes

\* C14 (as claimed): a handle handed to decode holds every byte of the
\* upload and reads from offset 0, and no handle whose rewind failed is
\* handed to decode, on the path branch and on the tempfile branch.
C14_WrittenAndRewound ==
    \A r \in Uploads :
        rq[r].pc = "decode" =>
            /\ HandleContent(rq[r], files) = Flat(rq[r].in.stream)
            /\ rq[r].f.pos = 0
            /\ ~rq[r].rewind_failed

\* C15: after the write stage has completed on a target path, the file there
\* holds what was written, whatever happens later; a request that fails
\* later reports an error.
C15_LateFailureKeepsFile ==
    \A r \in Uploads :
        (Staged(rq[r], "write") /\ rq[r].f.kind = "path") =>
            /\ rq[r].f.loc \in DOMAIN files
            /\ files[rq[r].f.loc] = rq[r].yielded
            /\ rq[r].pc = "Failed" => (rq[r].err = "InternalError" /\ rq[r].status = 500)

\* decode rejected the bytes of a file written to the target path
C15_Witness ==
    \E r \in Uploads :
        /\ rq[r].pc = "Failed"
        /\ Staged(rq[r], "write")
        /\ rq[r].f.kind = "path"
        /\ rq[r].f.loc \in DOMAIN files

\* C16: at most one request is between lock and release of the clipboard at
\* any time, the lock is held by that request only, and it is free again as
\* soon as set_image has returned, with or without an error.
C16_ClipboardSerialised ==
    /\ Cardinality({r \in Reqs : rq[r].pc = "clip_set"}) <= 1
    /\ \A r \in Reqs : rq[r].pc = "clip_set" <=> clipboard = r
    /\ clipboard # 0 => clipboard \in Reqs

\* set_image failed for one request, and another holds the lock after it
C16_Witness ==
    \E r1, r2 \in Reqs :
        /\ r1 # r2
        /\ rq[r1].pc = "Failed" /\ rq[r1].clip_calls = 1
        /\ rq[r2].pc = "clip_set" /\ clipboard = r2

\* C17 (as claimed): regex::Regex::new runs at most once in the life of the
\* process, whatever the pattern and however many requests there are.
C17_CompiledOnce == compiles <= 1

\* the step of C18: request r leaves the open of line 130-137
C18_Step(r) ==
    (rq[r].pc = "open" /\ rq'[r].pc # "open") =>
        LET at == Locate(Unwrap(rq[r].tgt_file), dirs)
        IN  (rq'[r].open_io_ok /\ at # None /\ Unwrap(at) \notin dirs) =>
                /\ rq'[r].pc = "write" /\ rq'[r].err = ""
                /\ files'[Unwrap(at)] = <<>>
                /\ \A o \in Reqs \ {r} : rq'[o] = rq[o]

\* C18: an open that meets no I/O error succeeds on the path the request
\* resolved, also when another request has created the file since the
\* exists check: the file is emptied, and neither request gets an error
\* from it.
C18_RaceOverwrites == [][\A r \in Uploads : C18_Step(r)]_vars

\* two uploads resolved and opened the same path, and what the first wrote
\* is gone, neither having failed
C18_Witness ==
    \E r1, r2 \in Uploads :
        /\ r1 # r2
        /\ rq[r1].f.kind = "path" /\ rq[r2].f.kind = "path"
        /\ rq[r1].f.loc = rq[r2].f.loc
        /\ rq[r1].tgt_file = rq[r2].tgt_file
        /\ rq[r1].written_bytes > 0 /\ rq[r2].written_bytes = 0
        /\ files[rq[r1].f.loc] = <<>>
        /\ rq[r1].err = "" /\ rq[r2].err = ""

\* no request started while another was in flight
Sequential == \A r \in Reqs : ~rq[r].overlap

\* upload r1 wrote to its target path before upload r2 started, and r2 sent
\* the same file name and has opened its target
C19_Second(r1, r2) ==
    /\ r1 # r2
    /\ rq[r1].f.kind = "path" /\ rq[r2].f.kind = "path"
    /\ rq[r2].started
    /\ rq[r1].f.loc \in DOMAIN rq[r2].files0
    /\ rq[r1].file_name = rq[r2].file_name
    /\ rq[r1].tgt_file = Some(PathPush(rq[r1].tgt_dir, rq[r1].file_name))

\* C19 (as claimed): when no two requests overlap, every file that was
\* there when an upload started is there unchanged, and the second of two
\* uploads of one name is written to name_0.ext.
C19_SequentialNoOverwrite ==
    Sequential =>
        /\ \A r \in Uploads : \A loc \in DOMAIN rq[r].files0 :
               loc \in DOMAIN files /\ files[loc] = rq[r].files0[loc]
        /\ \A r1, r2 \in Uploads :
               C19_Second(r1, r2) =>
                   rq[r2].tgt_file =
                       Some(PathPush(rq[r2].tgt_dir, SpecCandidate(rq[r2].file_name, 0)))

\* C19 for a name whose stem has no dot, which the code meets
C19_PlainName ==
    Sequential =>
        /\ \A r \in Uploads : \A loc \in DOMAIN rq[r].files0 :
               loc \in DOMAIN files /\ files[loc] = rq[r].files0[loc]
        /\ \A r1, r2 \in Uploads :
               (C19_Second(r1, r2) /\ rq[r2].file_name = S_a_png) =>
                   rq[r2].tgt_file = Some(S_t \o <<"/">> \o S_a_0_png)

\* the handler img has answered q
Answered(q) ==
    q.kind \in {"get", "img"} /\ q.pc \in {"Done", "Failed"} /\ q.err # "NoRoute"

\* C20: a request img has answered got ImageHostingDisabled and 403 when
\* target_dir is unset, FilePathNotAllowed and 403 when its path resolves to
\* a location that is not below the root; a file that is served, by any
\* request, is the one the path resolves to and lies below the root.
C20_Containment ==
    \A r \in Reqs :
        /\ (Answered(rq[r]) /\ config.target_dir = None) =>
               rq[r].err = "ImageHostingDisabled" /\ rq[r].status = 403
        /\ (Answered(rq[r]) /\ config.target_dir # None) =>
               LET canonical == canonicalize(PathPush(Unwrap(config.target_dir),
                                                      rq[r].img_loc), dirs, files)
                   root == Unwrap(Locate(Unwrap(config.target_dir), dirs))
               IN  (canonical # None /\ ~Under(Unwrap(canonical), root)) =>
                       rq[r].err = "FilePathNotAllowed" /\ rq[r].status = 403
        /\ rq[r].served # None =>
               /\ config.target_dir # None
               /\ rq[r].served = canonicalize(PathPush(Unwrap(config.target_dir),
                                                       rq[r].img_loc), dirs, files)
               /\ Under(Unwrap(rq[r].served),
                        Unwrap(Locate(Unwrap(config.target_dir), dirs)))
               /\ Unwrap(rq[r].served) # Unwrap(Locate(Unwrap(config.target_dir), dirs))

\* a GET through the mounted route for a file that exists outside the root
\* was refused
C20_Witness ==
    \E r \in Reqs :
        /\ rq[r].kind = "get" /\ Answered(rq[r])
        /\ rq[r].img_loc = S_up_e_a_png
        /\ L_e \o <<S_a_png>> \in DOMAIN files
        /\ rq[r].err = "FilePathNotAllowed"

\* C21 (as claimed): a read of a path below the root at which nothing exists
\* is answered with ImageDoesNotExist and 404.
C21_MissingIs404 ==
    \A r \in Reqs :
        (Answered(rq[r]) /\ config.target_dir # None) =>
            LET at == Locate(PathPush(Unwrap(config.target_dir), rq[r].img_loc), dirs)
                root == Unwrap(Locate(Unwrap(config.target_dir), dirs))
            IN  ( /\ at # None
                  /\ Under(Unwrap(at), root)
                  /\ Unwrap(at) \notin dirs \cup DOMAIN files )
                => rq[r].err = "ImageDoesNotExist" /\ rq[r].status = 404

\* the stages of a request, in the order of read_field and upload
StageOrder == <<"sniff", "gate", "place", "write", "decode", "clip">>

\* the step of C22 for request r: a stage completes only as the next of the
\* order, and a request that has failed does nothing more
C22_Step(r) ==
    /\ rq[r].pc = "Failed" => rq'[r] = rq[r]
    /\ \/ rq'[r].trail = rq[r].trail
       \/ /\ Len(rq[r].trail) < Len(StageOrder)
          /\ rq'[r].trail = Append(rq[r].trail, StageOrder[Len(rq[r].trail) + 1])
          /\ rq'[r].err = ""

\* C22: the stages of an upload complete in the order sniff, gate, place,
\* write, decode, clip, each after the one before it; no target is chosen
\* before the gate, no file opened before the target is chosen; an error ends
\* the request in Failed, after which it does nothing; the clipboard is
\* invoked at most once, after write and decode, and the response follows
\* the clipboard.
C22_StageOrder ==
    /\ [](\A r \in Uploads :
            /\ IsPrefix(rq[r].trail, StageOrder)
            /\ rq[r].err # "" <=> rq[r].pc = "Failed"
            /\ rq[r].inference_buf # <<>> => rq[r].started
            /\ rq[r].file_name # <<>> => Staged(rq[r], "gate")
            /\ (rq[r].tgt_file # None \/ rq[r].tgt_dir # <<>>) => Staged(rq[r], "gate")
            /\ rq[r].f.kind # "none" => Staged(rq[r], "place")
            /\ rq[r].pc = "decode" => Staged(rq[r], "write")
            /\ rq[r].pc \in {"clip_lock", "clip_set"} => Staged(rq[r], "decode")
            /\ rq[r].clip_calls <= 1
            /\ rq[r].clip_calls = 1 => Staged(rq[r], "decode")
            /\ rq[r].pc = "Done" => rq[r].trail = StageOrder
            /\ rq[r].status = 200 <=> rq[r].pc = "Done")
    /\ [][\A r \in Uploads : C22_Step(r)]_vars

\* an upload went through sniff, gate, place and write, failed in decode and
\* never came to the clipboard
C22_Witness ==
    \E r \in Uploads :
        /\ rq[r].trail = SubSeq(StageOrder, 1, 4)
        /\ rq[r].pc = "Failed"
        /\ rq[r].clip_calls = 0
        /\ rq[r].body.text = ""

\* C23 (as claimed): the probe buffer never holds more than 8192 bytes, and
\* once the probe loop has ended it holds the first min(8192, stream length)
\* bytes of the stream.
C23_ProbeBufferLength ==
    \A r \in Uploads :
        /\ ByteLen(rq[r].inference_buf) <= INFERENCE_BUF_LEN
        /\ IsPrefix(rq[r].inference_buf, Flat(rq[r].in.stream))
        /\ (rq[r].pc = "infer" \/ Sniffed(rq[r])) =>
               ByteLen(rq[r].inference_buf) =
                   Min(INFERENCE_BUF_LEN, ByteLen(Flat(rq[r].in.stream)))

\* C24 as far as the regex goes, which the code meets: with a pattern that
\* does not compile the request gets through path resolution without an
\* error, the directory chosen is target_dir itself, the target is joined
\* from it and a free name, and only a failed create_dir_all sends the upload
\* to a tempfile.
C24_ClassificationSkipped ==
    \A r \in Uploads :
        (config.subdirectory_regex = "invalid" /\ config.target_dir # None
            /\ Staged(rq[r], "place")) =>
            /\ rq[r].tgt_dir = Unwrap(config.target_dir)
            /\ rq[r].tgt_file = None <=> rq[r].mkdir_failed
            /\ rq[r].pc = "open" =>
                  /\ rq[r].err = ""
                  /\ ~PathExists(Unwrap(rq[r].tgt_file), dirs, files)
                  /\ \E name \in {rq[r].file_name}
                              \cup {Candidate(rq[r].file_name, n) : n \in 0..MaxSuffix} :
                         rq[r].tgt_file = Some(PathPush(Unwrap(config.target_dir), name))

\* C24 (as claimed): with a pattern that does not compile the request gets
\* through path resolution without an error and, unless create_dir_all
\* fails, the upload is written to a file directly under target_dir, never
\* to a tempfile.
C24_BadRegexStillPersists ==
    \A r \in Uploads :
        (config.subdirectory_regex = "invalid" /\ config.target_dir # None
            /\ Staged(rq[r], "place")) =>
            /\ rq[r].tgt_file = None <=> rq[r].mkdir_failed
            /\ rq[r].pc = "open" => rq[r].err = ""
            /\ rq[r].f.kind = "temp" => rq[r].mkdir_failed
            /\ rq[r].f.kind = "path" =>
                  Parent(rq[r].f.loc) = Unwrap(Locate(Unwrap(config.target_dir), dirs))

\* the step of C25: a GET while target_dir is absent never enters img
C25_Step(r) ==
    (rq[r].kind = "get" /\ rq[r].pc = "img" /\ config.target_dir = None) =>
        (rq'[r].pc = "img" \/ rq'[r].err = "NoRoute")

\* C25: in the configuration the server runs with, enable_imagehost implies
\* a target_dir, whatever the file asked for; the route /img is mounted only
\* with a target_dir, so no GET enters img without one; and img called
\* without a target_dir answers ImageHostingDisabled, nothing else.
C25_ImagehostNeedsTarget ==
    /\ [](/\ config.enable_imagehost => config.target_dir # None
          /\ config.enable_imagehost => config.asked_imagehost
          /\ ImgRouteMounted(config) => config.target_dir # None
          /\ \A r \in Reqs :
                (Answered(rq[r]) /\ config.target_dir = None) =>
                    /\ rq[r].kind = "img"
                    /\ rq[r].err = "ImageHostingDisabled"
                    /\ rq[r].served = None)
    /\ [][\A r \in Reqs : C25_Step(r)]_vars

\* the file asked for imagehost without a target_dir, it was switched off,
\* and a GET of /img found no route
C25_Witness ==
    \E r \in Reqs :
        /\ config.asked_imagehost /\ ~config.enable_imagehost
        /\ config.target_dir = None
        /\ rq[r].kind = "get" /\ rq[r].pc = "Failed" /\ rq[r].err = "NoRoute"

====
